---- MODULE Spec2Model ----
(***************************************************************************)
(* Model of onur1/toposort, graph.go: NewGraph = buildRelations, vertex    *)
(* construction, tsort, validateGraph.  A name is a tuple of runes.  Every *)
(* `for ... range <map>` loop is one action per iteration that picks any   *)
(* key not yet ranged over, since Go leaves the order of a map range       *)
(* unspecified.  The recursive closures (visit) are RECURSIVE operators.   *)
(***************************************************************************)
EXTENDS Integers, Sequences, FiniteSets, TLC

VARIABLES data, pc, todo, relations, ids, err, vertices,
          visited, sorted, recursive, recursion, result

vars == <<data, pc, todo, relations, ids, err, vertices,
          visited, sorted, recursive, recursion, result>>

\* Largest number of entries of the input map.
MaxRel == 3

\* The names an input map is drawn from: four valid lower-case names, a
\* case variant of the first and a name with a digit.
Names == { <<"a","b">>, <<"A","b">>, <<"c","d">>, <<"e","f">>, <<"g","h">>,
           <<"c","1">> }

ErrCircular == "cyclic"
ErrMultipleRoots == "multiple roots"
ErrInvalidName == "invalid name"

Range(s) == { s[i] : i \in DOMAIN s }

EmptyMap == [x \in {} |-> <<>>]

\* m[k] = v of a Go map
Put(m, k, v) == [x \in DOMAIN m \cup {k} |-> IF x = k THEN v ELSE m[x]]

\* ---------------------------------------------------------------- runes
UpperToLower == [r \in {"A"} |-> "a"]

Letters == {"a","A","b","c","d","e","f","g","h"}

ToLower(s) == [i \in DOMAIN s |->
                 IF s[i] \in DOMAIN UpperToLower THEN UpperToLower[s[i]] ELSE s[i]]

isAlpha(s) == \A i \in DOMAIN s : s[i] \in Letters

sliceContainsString(s, e) == \E i \in DOMAIN s : s[i] = e

\* ---------------------------------------------------------------- errors
\* fmt.Errorf("%w: ...", kind, ...): an error wrapping `kind` with its keys.
Errorf(kind, keys) == [kind |-> kind, keys |-> keys]

\* MultiError.Is
Is(m, target) == \E i \in DOMAIN m : m[i].kind = target

\* ---------------------------------------------------------------- buildRelations
\* checkName with `&&` for `||` in the name test.
checkName_And(st, sk, k) ==
    IF sk \in DOMAIN st.ids
    THEN st
    ELSE [st EXCEPT
            !.err = IF ~isAlpha(k) /\ Len(k) < 2
                    THEN Append(@, Errorf(ErrInvalidName, <<k>>))
                    ELSE @,
            !.ids = Put(@, sk, k)]

\* One half of the loop body: the ids / validation block for one name.
checkName(st, sk, k) ==
    IF sk \in DOMAIN st.ids
    THEN st
    ELSE [st EXCEPT
            !.err = IF ~isAlpha(k) \/ Len(k) < 2
                    THEN Append(@, Errorf(ErrInvalidName, <<k>>))
                    ELSE @,
            !.ids = Put(@, sk, k)]

\* The body of `for k, v := range data`.
buildRelationsBody(st, k, v) ==
    LET sk == ToLower(k)
        sv == ToLower(v)
        s1 == [st EXCEPT !.relations = Put(@, sk, sv)]
        s2 == checkName(s1, sk, k)
    IN  checkName(s2, sv, v)

\* ---------------------------------------------------------------- NewGraph vertices
\* The body of `for c, p := range relations`; a Vertex is its afters list.
verticesBody(vs, c, p) ==
    LET v1 == IF c \in DOMAIN vs THEN vs ELSE Put(vs, c, <<>>)
        v2 == IF p \in DOMAIN v1 THEN v1 ELSE Put(v1, p, <<>>)
    IN  [v2 EXCEPT ![p] = Append(@, c)]

\* ---------------------------------------------------------------- tsort
RECURSIVE visit(_, _, _, _)
RECURSIVE visitAfters(_, _, _, _, _)

\* visitAfters recording the ancestors without the leading id.
visitAfters_NoLeadingId(g, id, ancestors, i, st) ==
    IF i > Len(g[id])
    THEN st
    ELSE LET afterID == g[id][i]
             s1 == IF sliceContainsString(ancestors, afterID)
                   THEN [st EXCEPT
                           !.recursive = @ \cup {id} \cup Range(ancestors),
                           !.recursion = @ \o ancestors]
                   ELSE visit(g, afterID, ancestors, st)
         IN  visitAfters(g, id, ancestors, i + 1, s1)

\* The `for _, afterID := range vertex.afters` loop of visit, from index i.
visitAfters(g, id, ancestors, i, st) ==
    IF i > Len(g[id])
    THEN st
    ELSE LET afterID == g[id][i]
             s1 == IF sliceContainsString(ancestors, afterID)
                   THEN [st EXCEPT
                           !.recursive = @ \cup {id} \cup Range(ancestors),
                           !.recursion = @ \o <<id>> \o ancestors]
                   ELSE visit(g, afterID, ancestors, st)
         IN  visitAfters(g, id, ancestors, i + 1, s1)

\* visit appending the key to sorted instead of prepending it.
visit_Append(g, id, ancestors, st) ==
    IF id \in st.visited
    THEN st
    ELSE LET anc == Append(ancestors, id)
             s1 == [st EXCEPT !.visited = @ \cup {id}]
             s2 == visitAfters(g, id, anc, 1, s1)
         IN  [s2 EXCEPT !.sorted = Append(@, id)]

\* visit without the early return for a visited key.
visit_NoVisitedCheck(g, id, ancestors, st) ==
    LET anc == Append(ancestors, id)
        s1 == [st EXCEPT !.visited = @ \cup {id}]
        s2 == visitAfters(g, id, anc, 1, s1)
    IN  [s2 EXCEPT !.sorted = <<id>> \o @]

\* The closure visit of tsort.  The callee appends to ancestors[:] only
\* beyond the caller's length, so the caller's view of its own path is
\* never changed and the slice is modelled as a value.
visit(g, id, ancestors, st) ==
    IF id \in st.visited
    THEN st
    ELSE LET anc == Append(ancestors, id)
             s1 == [st EXCEPT !.visited = @ \cup {id}]
             s2 == visitAfters(g, id, anc, 1, s1)
         IN  [s2 EXCEPT !.sorted = <<id>> \o @]

\* ---------------------------------------------------------------- validateGraph
\* Result of an edge count that never returns (the recursion re-enters a
\* key that is on its own call path, so it overflows the stack).
Overflow == -1

RECURSIVE validateVisit(_, _, _)
RECURSIVE validateVisitAfters(_, _, _, _, _)

validateVisitAfters(g, id, path, i, length) ==
    IF i > Len(g[id])
    THEN length
    ELSE LET n == validateVisit(g, g[id][i], path \cup {id})
         IN  IF n = Overflow
             THEN Overflow
             ELSE validateVisitAfters(g, id, path, i + 1, length + 1 + n)

\* The closure visit of validateGraph: the number it adds to `length`.
validateVisit(g, id, path) ==
    IF id \in path
    THEN Overflow
    ELSE validateVisitAfters(g, id, path, 1, 0)

RECURSIVE rootsLoop(_, _, _, _, _, _)

\* rootsLoop without the `!g.recursive[id]` guard.
rootsLoop_NoGuard(g, srt, rec, i, length, roots) ==
    IF i > Len(srt)
    THEN [roots |-> roots, overflow |-> FALSE]
    ELSE LET id == srt[i]
             o == length
             n == validateVisit(g, id, {})
         IN  IF n = Overflow
             THEN [roots |-> roots, overflow |-> TRUE]
             ELSE rootsLoop(g, srt, rec, i + 1, n,
                            IF n > o THEN Append(roots, id) ELSE roots)

\* `for _, id := range g.sorted` of validateGraph, from index i.
rootsLoop(g, srt, rec, i, length, roots) ==
    IF i > Len(srt)
    THEN [roots |-> roots, overflow |-> FALSE]
    ELSE LET id == srt[i]
             o == length
         IN  IF id \notin rec
             THEN LET n == validateVisit(g, id, {})
                  IN  IF n = Overflow
                      THEN [roots |-> roots, overflow |-> TRUE]
                      ELSE rootsLoop(g, srt, rec, i + 1, n,
                                     IF n > o THEN Append(roots, id) ELSE roots)
             ELSE rootsLoop(g, srt, rec, i + 1, 0, roots)

RECURSIVE splitLoop(_, _, _, _, _)

\* splitLoop that does not advance `start` when it closes a run.
splitLoop_KeepStart(rcn, i, recursions, start, ko) ==
    IF i > Len(rcn)
    THEN recursions
    ELSE LET k == rcn[i]
         IN  IF k = ko
             THEN splitLoop(rcn, i + 1,
                            Append(recursions, SubSeq(rcn, start, i)), start, <<>>)
             ELSE IF ko = <<>>
                  THEN splitLoop(rcn, i + 1, recursions, start, k)
                  ELSE splitLoop(rcn, i + 1, recursions, start, ko)

\* `for i, k := range g.recursion` of validateGraph; the empty name is "".
splitLoop(rcn, i, recursions, start, ko) ==
    IF i > Len(rcn)
    THEN recursions
    ELSE LET k == rcn[i]
         IN  IF k = ko
             THEN splitLoop(rcn, i + 1,
                            Append(recursions, SubSeq(rcn, start, i)), i + 1, <<>>)
             ELSE IF ko = <<>>
                  THEN splitLoop(rcn, i + 1, recursions, start, k)
                  ELSE splitLoop(rcn, i + 1, recursions, start, ko)

\* validateGraph: the MultiError it returns, or overflow.
validateGraph(g, idx, srt, rec, rcn) ==
    LET rl == rootsLoop(g, srt, rec, 1, 0, <<>>)
        recursions == splitLoop(rcn, 1, <<>>, 1, <<>>)
        cyc == [i \in DOMAIN recursions |-> Errorf(ErrCircular, recursions[i])]
        names == [i \in DOMAIN rl.roots |-> idx[rl.roots[i]]]
    IN  [overflow |-> rl.overflow,
         err |-> IF Len(rl.roots) > 1
                 THEN Append(cyc, Errorf(ErrMultipleRoots, names))
                 ELSE cyc]

\* Graph.SortedIDs
SortedIDs == [i \in DOMAIN sorted |-> ids[sorted[i]]]

\* ---------------------------------------------------------------- state machine
NoResult == [graph |-> FALSE, err |-> <<>>]

InputMaps == UNION { [d -> Names] : d \in { s \in SUBSET Names :
                                             Cardinality(s) \in 1..MaxRel } }

Init ==
    /\ data \in InputMaps
    /\ pc = "buildRelations"
    /\ todo = DOMAIN data
    /\ relations = EmptyMap
    /\ ids = EmptyMap
    /\ err = <<>>
    /\ vertices = EmptyMap
    /\ visited = {}
    /\ sorted = <<>>
    /\ recursive = {}
    /\ recursion = <<>>
    /\ result = NoResult

\* One iteration of `for k, v := range data` in buildRelations.
BuildRelationsIter ==
    /\ pc = "buildRelations"
    /\ \E k \in todo :
         LET st == buildRelationsBody(
                     [relations |-> relations, ids |-> ids, err |-> err], k, data[k])
         IN  /\ relations' = st.relations
             /\ ids' = st.ids
             /\ err' = st.err
             /\ todo' = todo \ {k}
    /\ UNCHANGED <<data, pc, vertices, visited, sorted, recursive, recursion, result>>

\* buildRelations returns an error and NewGraph returns it.
NewGraphInvalid ==
    /\ pc = "buildRelations"
    /\ todo = {}
    /\ err # <<>>
    /\ pc' = "done"
    /\ result' = [graph |-> FALSE, err |-> err]
    /\ UNCHANGED <<data, todo, relations, ids, err, vertices,
                   visited, sorted, recursive, recursion>>

\* buildRelations returns the relations; NewGraph starts ranging over them.
BuildRelationsReturn ==
    /\ pc = "buildRelations"
    /\ todo = {}
    /\ err = <<>>
    /\ pc' = "vertices"
    /\ todo' = DOMAIN relations
    /\ UNCHANGED <<data, relations, ids, err, vertices,
                   visited, sorted, recursive, recursion, result>>

\* One iteration of `for c, p := range relations` in NewGraph.
VerticesIter ==
    /\ pc = "vertices"
    /\ \E c \in todo :
         /\ vertices' = verticesBody(vertices, c, relations[c])
         /\ todo' = todo \ {c}
    /\ UNCHANGED <<data, pc, relations, ids, err,
                   visited, sorted, recursive, recursion, result>>

\* TsortStart ranging over the relations (the children) instead of g.
TsortStart_OverRelations ==
    /\ pc = "vertices"
    /\ todo = {}
    /\ pc' = "tsort"
    /\ todo' = DOMAIN relations
    /\ visited' = {}
    /\ sorted' = <<>>
    /\ recursive' = {}
    /\ recursion' = <<>>
    /\ UNCHANGED <<data, relations, ids, err, vertices, result>>

\* tsort is called: its locals are initialised, the range over g starts.
TsortStart ==
    /\ pc = "vertices"
    /\ todo = {}
    /\ pc' = "tsort"
    /\ todo' = DOMAIN vertices
    /\ visited' = {}
    /\ sorted' = <<>>
    /\ recursive' = {}
    /\ recursion' = <<>>
    /\ UNCHANGED <<data, relations, ids, err, vertices, result>>

\* One iteration of `for k := range g` in tsort.
TsortIter ==
    /\ pc = "tsort"
    /\ \E k \in todo :
         LET st == visit(vertices, k, <<>>,
                         [visited |-> visited, sorted |-> sorted,
                          recursive |-> recursive, recursion |-> recursion])
         IN  /\ visited' = st.visited
             /\ sorted' = st.sorted
             /\ recursive' = st.recursive
             /\ recursion' = st.recursion
             /\ todo' = todo \ {k}
    /\ UNCHANGED <<data, pc, relations, ids, err, vertices, result>>

\* tsort returns; validateGraph runs and NewGraph returns.
Validate ==
    /\ pc = "tsort"
    /\ todo = {}
    /\ LET v == validateGraph(vertices, ids, sorted, recursive, recursion)
       IN  IF v.overflow
           THEN /\ pc' = "overflow"
                /\ result' = result
           ELSE /\ pc' = "done"
                /\ result' = [graph |-> v.err = <<>>, err |-> v.err]
    /\ UNCHANGED <<data, todo, relations, ids, err, vertices,
                   visited, sorted, recursive, recursion>>

Next ==
    \/ BuildRelationsIter
    \/ NewGraphInvalid
    \/ BuildRelationsReturn
    \/ VerticesIter
    \/ TsortStart
    \/ TsortIter
    \/ Validate

Spec == Init /\ [][Next]_vars

\* ---------------------------------------------------------------- graph facts
\* Facts about the input read off `relations` (child |-> parent), without
\* running the sort.
Done == pc = "done"

TsortReturned == pc = "tsort" /\ todo = {}

InvalidNames == { n \in DOMAIN data \cup { data[k] : k \in DOMAIN data } :
                    ~isAlpha(n) \/ Len(n) < 2 }

ValidInput == InvalidNames = {}

Keys == DOMAIN relations \cup { relations[c] : c \in DOMAIN relations }

RECURSIVE ParentN(_, _)
\* The n-th ancestor of k, or the empty name when the chain of parents ends.
ParentN(k, n) ==
    IF n = 0 THEN k
    ELSE IF k \in DOMAIN relations THEN ParentN(relations[k], n - 1) ELSE <<>>

CycleOf(k) == { ParentN(k, n) : n \in 1..Cardinality(Keys) }

CycleKeys == { k \in Keys : k \in CycleOf(k) }

Cycles == { CycleOf(k) : k \in CycleKeys }

Acyclic == CycleKeys = {}

Parentless == Keys \ DOMAIN relations

Children(p) == { c \in DOMAIN relations : relations[c] = p }

\* The keys below k: every key that has k among its ancestors.
Below(k) == { c \in Keys : \E n \in 1..Cardinality(Keys) : ParentN(c, n) = k }

Pos(s, k) == CHOOSE i \in DOMAIN s : s[i] = k

Kinds(m) == { m[i].kind : i \in DOMAIN m }

CyclicErrs == { i \in DOMAIN result.err : result.err[i].kind = ErrCircular }

\* ---------------------------------------------------------------- C1
\* C1: whenever NewGraph returns a graph and no error, every relation
\* (child, parent) of the case-folded mapping has parent strictly before
\* child in the sorted sequence.
C1_ParentBeforeChild ==
    (Done /\ result.graph) =>
        \A c \in DOMAIN relations :
            /\ c \in Range(sorted)
            /\ relations[c] \in Range(sorted)
            /\ Pos(sorted, relations[c]) < Pos(sorted, c)

\* A successful sort of a tree in which one parent has two children.
C1_Witness ==
    /\ Done /\ result.graph
    /\ \E p \in Keys : Cardinality(Children(p)) >= 2

\* ---------------------------------------------------------------- C2
\* C2: an acyclic input with valid names and exactly one parentless key (a
\* single tree) is sorted without error.
C2_SingleTreeSorts ==
    (Done /\ ValidInput /\ Acyclic /\ Cardinality(Parentless) = 1) =>
        (result.graph /\ result.err = <<>>)

C4_MultipleRootsReported ==
    (Done /\ ValidInput /\ Acyclic /\ Cardinality(Parentless) >= 2) =>
        (~result.graph /\ Is(result.err, ErrMultipleRoots))

\* ---------------------------------------------------------------- C5
\* C5: a MultipleRoots error for an acyclic input names exactly the
\* parentless keys.
C5_RootsNamed ==
    (Done /\ ValidInput /\ Acyclic) =>
        \A i \in DOMAIN result.err :
            result.err[i].kind = ErrMultipleRoots =>
                Range(result.err[i].keys) = { ids[r] : r \in Parentless }

\* ---------------------------------------------------------------- C6
\* C6: an input with an invalid name and a cycle (several roots) yields an
\* aggregate matching ErrInvalidName and ErrCircular (ErrMultipleRoots).
C6_AllCollected ==
    (Done /\ ~ValidInput) =>
        /\ Is(result.err, ErrInvalidName)
        /\ ~Acyclic => Is(result.err, ErrCircular)
        /\ (Acyclic /\ Cardinality(Parentless) >= 2) =>
               Is(result.err, ErrMultipleRoots)

\* C6 amended: name validation fails fast.  With an invalid name in the
\* input NewGraph returns no graph and an aggregate that holds one
\* ErrInvalidName error per case-folded invalid name and nothing else.
C6_InvalidNamesOnly ==
    (Done /\ ~ValidInput) =>
        /\ ~result.graph
        /\ Kinds(result.err) = {ErrInvalidName}
        /\ { ToLower(result.err[i].keys[1]) : i \in DOMAIN result.err }
             = { ToLower(n) : n \in InvalidNames }
        /\ Len(result.err) = Cardinality({ ToLower(n) : n \in InvalidNames })

\* An invalid name in an input whose relations also contain a cycle.
C6_Witness ==
    /\ Done /\ ~ValidInput /\ ~Acyclic

\* ---------------------------------------------------------------- C7
\* What a caller can observe of NewGraph: the error kinds the aggregate
\* matches and, on success, SortedIDs.
Outcome(res, seq) == [kinds |-> Kinds(res.err),
                      seq |-> IF res.graph THEN seq ELSE <<>>]

RECURSIVE RefBuildRelations(_, _, _)
RECURSIVE RefVertices(_, _, _)
RECURSIVE RefTsort(_, _, _)

\* The three map ranges run in one fixed order.
RefBuildRelations(d, td, st) ==
    IF td = {} THEN st
    ELSE LET k == CHOOSE x \in td : TRUE
         IN  RefBuildRelations(d, td \ {k}, buildRelationsBody(st, k, d[k]))

RefVertices(rel, td, vs) ==
    IF td = {} THEN vs
    ELSE LET c == CHOOSE x \in td : TRUE
         IN  RefVertices(rel, td \ {c}, verticesBody(vs, c, rel[c]))

RefTsort(g, td, st) ==
    IF td = {} THEN st
    ELSE LET k == CHOOSE x \in td : TRUE
         IN  RefTsort(g, td \ {k}, visit(g, k, <<>>, st))

\* The outcome of NewGraph(d) under that fixed order.
RefOutcome(d) ==
    LET b == RefBuildRelations(d, DOMAIN d,
                 [relations |-> EmptyMap, ids |-> EmptyMap, err |-> <<>>])
    IN  IF b.err # <<>>
        THEN Outcome([graph |-> FALSE, err |-> b.err], <<>>)
        ELSE LET g == RefVertices(b.relations, DOMAIN b.relations, EmptyMap)
                 t == RefTsort(g, DOMAIN g,
                          [visited |-> {}, sorted |-> <<>>,
                           recursive |-> {}, recursion |-> <<>>])
                 v == validateGraph(g, b.ids, t.sorted, t.recursive, t.recursion)
             IN  Outcome([graph |-> v.err = <<>>, err |-> v.err],
                         [i \in DOMAIN t.sorted |-> b.ids[t.sorted[i]]])

AllNames == DOMAIN data \cup { data[k] : k \in DOMAIN data }

\* No two names of the input differ only in case.
FoldInjective == \A m, n \in AllNames : ToLower(m) = ToLower(n) => m = n

\* The relations form one chain: no cycle, one parentless key, and no key
\* with two children.
SingleChain ==
    /\ Acyclic
    /\ Cardinality(Parentless) = 1
    /\ \A p \in Keys : Cardinality(Children(p)) <= 1

\* C7: for a fixed input every iteration order gives the same outcome
\* (the same sequence on success, the same error kinds on failure).
C7_Deterministic ==
    Done => Outcome(result, SortedIDs) = RefOutcome(data)

\* C7 amended: when no two names of the input differ only in case, every
\* iteration order agrees on whether the error matches ErrInvalidName and
\* whether it matches ErrCircular; when moreover the names are valid and
\* the relations form a single chain, the sort succeeds with the same
\* sequence in every order.
C7_ChainDeterministic ==
    (Done /\ FoldInjective) =>
        LET ref == RefOutcome(data)
        IN  /\ \A kind \in {ErrInvalidName, ErrCircular} :
                 Is(result.err, kind) <=> kind \in ref.kinds
            /\ (ValidInput /\ SingleChain) =>
                 /\ result.graph
                 /\ Outcome(result, SortedIDs) = ref

\* A chain of three relations has been sorted.
C7_Witness ==
    /\ Done /\ ValidInput /\ FoldInjective /\ SingleChain
    /\ Cardinality(DOMAIN relations) >= 3

\* ---------------------------------------------------------------- C8
\* C8: when tsort returns, sorted is a permutation of the vertex set, which
\* is the set of keys that are child or parent of a relation.
C8_SortedIsPermutation ==
    TsortReturned =>
        /\ DOMAIN vertices = Keys
        /\ Range(sorted) = Keys
        /\ Len(sorted) = Cardinality(Keys)

\* tsort has returned on a cyclic graph with a key hanging off the cycle.
C8_Witness ==
    /\ TsortReturned
    /\ ~Acyclic
    /\ Keys \ CycleKeys # {}

\* ---------------------------------------------------------------- C9
\* C9: one CyclicDependency error per cycle; each path is a closed walk
\* once around one cycle, along recorded edges, over exactly its keys.
C9_OneErrorPerCycle ==
    (Done /\ ValidInput) =>
        /\ Cardinality(CyclicErrs) = Cardinality(Cycles)
        /\ \A i \in CyclicErrs :
             LET p == result.err[i].keys
             IN  /\ Len(p) >= 2
                 /\ p[1] = p[Len(p)]
                 /\ \A j \in 1..(Len(p) - 1) : p[j + 1] \in Range(vertices[p[j]])
                 /\ Range(p) \in Cycles
                 /\ Len(p) = Cardinality(Range(p)) + 1
        /\ \A i, j \in CyclicErrs :
             Range(result.err[i].keys) = Range(result.err[j].keys) => i = j

\* Two disjoint cycles, one of them longer than a self-loop.
C9_Witness ==
    /\ Done /\ ValidInput
    /\ Cardinality(Cycles) >= 2
    /\ \E c \in Cycles : Cardinality(c) >= 2

\* ---------------------------------------------------------------- C10
\* Loops still to run, then iterations left in the current loop: a natural
\* number that bounds the steps NewGraph has left.
PhaseRank == CASE pc = "buildRelations" -> 3
               [] pc = "vertices" -> 2
               [] pc = "tsort" -> 1
               [] OTHER -> 0

Measure == PhaseRank * (Cardinality(Names) + 1) + Cardinality(todo)

\* C10: NewGraph terminates on every input.  Every step brings the return
\* nearer and the edge count of validateGraph never overflows the stack:
\* tsort runs the body of visit once per key, the keys it flags recursive
\* are the keys on cycles, and no key on a cycle is below an unflagged key.
C10_Terminates ==
    /\ [][Measure' < Measure]_vars
    /\ [](pc # "overflow")
    /\ [](TsortReturned =>
            /\ Len(sorted) = Cardinality(visited)
            /\ recursive = CycleKeys
            /\ \A id \in Range(sorted) \ recursive :
                 (Below(id) \cup {id}) \cap CycleKeys = {})

\* NewGraph returned on a cycle with a tree hanging off it.
C10_Witness ==
    /\ Done /\ ValidInput
    /\ \E k \in Keys \ CycleKeys : k \in DOMAIN relations /\ relations[k] \in CycleKeys

====
